---- MODULE Spec2Model ----
(***************************************************************************)
(* CineAI backend: the per-role index build (VectorDBService), the index   *)
(* cache and search of RetrieverService, and the analysis pipeline that    *)
(* drives the build (main.py).  One video id is modelled; its artifacts    *)
(* are the files  <video>_technical.index, <video>_content.index,          *)
(* <video>_production.index  and  <video>_metadata.json.                   *)
(*                                                                         *)
(* Threads of control.  A Builder is one run of process_video_analysis; a  *)
(* Reader is one caller of RetrieverService._load_index.  Neither the      *)
(* pipeline nor the services take any lock, and all of them work on the    *)
(* shared directory vector_databases/, so the steps of different builders  *)
(* and readers interleave at the granularity of one file operation.        *)
(* (Inside a single uvicorn event loop the handlers are `async def`        *)
(* without an await and so run one after the other; the interleavings      *)
(* below are those of several server processes on one storage directory,   *)
(* and of several threads sharing one RetrieverService.)                   *)
(***************************************************************************)
EXTENDS Integers, Sequences, FiniteSets, TLC

\* ---------------------------------------------------------------- bounds
MaxFrames == 2
MaxIndex == 3       \* vectors in the index a direct search runs on
MaxMergeIndex == 2  \* vectors in the index search_with_answer runs on
MaxScanIndex == 5   \* vectors in an index larger than the fetch of a direct search
MaxSecond == 5      \* seconds of its frames are in 0..MaxSecond
MaxScore == 2       \* similarity scores are 1..MaxScore (higher is closer)
MaxTopK == 2        \* top_k of a direct search call is in 1..MaxTopK
MaxVariants == 2    \* expansion variants searched by search_with_answer
MaxQueryWords == 3  \* words of a query given to _expand_query
MaxRequestTopK == 16  \* a top_k given in the body of a /chat request is in 1..MaxRequestTopK
MaxCandidates == 2  \* candidates handed to _generate_answer, where its reply is parsed
MaxLines == 2       \* lines of the LLM's reply
MaxTokens == 2      \* comma-separated tokens of a RELEVANT line
MaxFallbackCandidates == 4  \* candidates handed to _generate_answer, where the call fails
MaxProgressFrames == 4  \* frames of the video a pipeline run reports progress on

\* ------------------------------------------------------- program constants
TIME_THRESHOLD == 3
DEFAULT_TOP_K == 5
VARIANT_TOP_K == 10
CHAT_DEFAULT_TOP_K == 5
PRODUCER_TOP_K == 15
MAX_EXPANSIONS == 5
EMOTION_SYNONYMS == 3
LOCATION_SYNONYMS == 2
ACTION_SYNONYMS == 2
FALLBACK_MOMENTS == 3

Builders == {"b1", "b2"}
Readers == {"r1", "r2"}

\* index_type values of RetrieverService.search, and the roles that map to them
IndexTypes == {"technical", "content", "production"}
FileNames == IndexTypes \cup {"metadata"}

NoText == 0

VARIABLES
    analysisOut,            \* analysis output file of the video exists (is_analyzed)
    files,                  \* vector_databases/: name -> [exists, data]
    pc,                     \* builder -> position in the pipeline / build
    frames,                 \* builder -> analysis_output["frames"]
    idx,                    \* builder -> frames consumed by the embedding loop
    technical_embeddings,   \* builder -> local list
    content_embeddings,     \* builder -> local list
    metadata,               \* builder -> local list
    err,                    \* builder -> exception the build raised ("" if none)
    wrote,                  \* builder -> files the current build call has written
    embed_errors,           \* builder -> seconds whose iteration took the except branch
    loaded_indices,         \* RetrieverService._loaded_indices: index type -> entry
    loads,                  \* index type -> times _load_index read the files
    rpc,                    \* reader -> position in chat / _load_index
    rtype,                  \* reader -> index type of its role
    rindex,                 \* reader -> local `index`
    rmeta,                  \* reader -> local `metadata`
    smeta,                  \* search: metadata of the loaded entry (rows by position)
    spc,                    \* search: position in search / search_with_answer
    srole,                  \* search: role of the request
    stopk,                  \* search: top_k of the request
    hits,                   \* search: (scores, indices) index.search gave the last direct call
    results,                \* search: list returned by the last search call
    all_candidates,         \* search_with_answer: merge dict, in key insertion order
    best_returned,          \* search_with_answer: second -> highest score returned so far
    variants_left,          \* search_with_answer: expansion variants still to search
    raw_results,            \* search_with_answer: the candidates handed to _generate_answer
    request,                \* /chat: the ChatRequest received (role, top_k of the body)
    chat_top_k,             \* /chat: the top_k handed to search_with_answer
    cpc,                    \* /chat: position in the handler
    query,                  \* _expand_query: the query string
    expansions,             \* _expand_query: the list it returns
    epc,                    \* _expand_query: position
    candidates,             \* _generate_answer: the `results` it is given
    arole,                  \* _generate_answer: its `role`
    response,               \* _generate_answer: what generate_content does when called
    called,                 \* _generate_answer: generate_content has been called
    bundle,                 \* _generate_answer: the dict it returns
    apc,                    \* _generate_answer: position
    status_file,            \* analysis status file of the video: status and overall_progress
    highest,                \* highest overall percentage the run has stored so far
    ppc,                    \* process_video_analysis: stage of the run
    ptotal,                 \* total_frames of the loop of the current stage
    pseen,                  \* items that loop has been through
    pdone                   \* items of them that succeeded

buildVars == <<analysisOut, files, pc, frames, idx, technical_embeddings,
               content_embeddings, metadata, err, wrote, embed_errors>>

loadVars == <<loaded_indices, loads, rpc, rtype, rindex, rmeta>>

searchVars == <<smeta, spc, srole, stopk, hits, results, all_candidates, best_returned,
                variants_left, raw_results>>

requestVars == <<request, chat_top_k, cpc>>

expandVars == <<query, expansions, epc>>

answerVars == <<candidates, arole, response, called, bundle, apc>>

chatVars == <<requestVars, expandVars, answerVars>>

statusVars == <<status_file, highest, ppc, ptotal, pseen, pdone>>

vars == <<buildVars, loadVars, searchVars, chatVars, statusVars>>

\* ------------------------------------------------------------ frame inputs
\* A frame of the analysis output.  Texts are modelled by an id, NoText for a
\* missing or empty text; the texts analysis_service generates start with
\* "Second: <second>", so the text of a frame is unique to the frame.
TechText(second) == 2 * second + 1
ContText(second) == 2 * second + 2

Frame(second, hasTech, hasCont) ==
    [second |-> second,
     embedding_text_technical |-> IF hasTech THEN TechText(second) ELSE NoText,
     embedding_text_content |-> IF hasCont THEN ContText(second) ELSE NoText]

\* The frame lists of n frames, frame i at second i-1 (ffmpeg numbers from 0).
FrameListsOf(n) ==
    { [i \in 1..n |-> Frame(i - 1, ht[i], hc[i])] :
        ht \in [1..n -> BOOLEAN], hc \in [1..n -> BOOLEAN] }

FrameLists == UNION { FrameListsOf(n) : n \in 0..MaxFrames }

\* The embedding collaborator: the (normalised) vector of a text.
Embedding(text) == [of |-> text]

Absent == [exists |-> FALSE, data |-> <<>>]
Stored(data) == [exists |-> TRUE, data |-> data]

\* No hits: index.search has not been called.
NoHits == [indices |-> <<>>, scores |-> <<>>]

\* An entry of the index cache.
NotCached == [cached |-> FALSE, index |-> <<>>, metadata |-> <<>>]
Entry(index, meta) == [cached |-> TRUE, index |-> index, metadata |-> meta]

Roles == {"actor", "director", "producer"}

\* The role strings a request can carry: the three roles and one that is none.
RequestRoles == Roles \cup {"editor"}

\* ------------------------------------------------------------------- Init
\* The search state before any request, on the metadata `meta`.
SearchIdle(meta) ==
    /\ smeta = meta
    /\ spc = "ready"
    /\ srole = "actor"
    /\ stopk = DEFAULT_TOP_K
    /\ hits = NoHits
    /\ results = <<>>
    /\ all_candidates = <<>>
    /\ best_returned = << >>
    /\ variants_left = 0
    /\ raw_results = <<>>

\* No /chat request has been received.
NoRequest == [role |-> "actor", top_k_given |-> FALSE, top_k |-> CHAT_DEFAULT_TOP_K]

RequestIdle ==
    /\ request = NoRequest
    /\ chat_top_k = CHAT_DEFAULT_TOP_K
    /\ cpc = "idle"

\* A string, as the words it is made of; `cased` says it has an upper-case
\* letter (so that it differs from its lower() form).
Str(words, cased) == [words |-> words, cased |-> cased]

ExpandIdle(q) ==
    /\ query = q
    /\ expansions = <<>>
    /\ epc = "idle"

\* The answer of a bundle: where its text comes from ("line": the ANSWER line,
\* "response": the whole reply, "canned": the no-results sentence, "fallback":
\* the sentence of the except branch, which carries len(results)), the text of
\* the ANSWER line, and whether the disclaimer sentence is put in front.
Answer(from, text, disclaimer, count) ==
    [from |-> from, text |-> text, disclaimer |-> disclaimer, count |-> count]

Bundle(answer, relevant_moments) ==
    [answer |-> answer, relevant_moments |-> relevant_moments,
     found_count |-> Len(relevant_moments)]

\* Faulty variant: the generic count sentence for an empty list.
NoBundleGeneric == Bundle(Answer("fallback", "", FALSE, 0), <<>>)

\* if not results: return {"answer": "I couldn't find ...", "relevant_moments": [], "found_count": 0}
NoBundle == Bundle(Answer("canned", "", FALSE, 0), <<>>)

\* The reply of generate_content: a text of lines, a response object whose
\* .text is None, or an exception.  A text is its lines by kind, the text
\* after `ANSWER:` and the tokens after `RELEVANT:`.
Reply(kind, lines, answer, relevant) ==
    [kind |-> kind, lines |-> lines, answer |-> answer, relevant |-> relevant]

NoReply == Reply("error", <<>>, "", <<>>)

AnswerIdle(cands, role, resp) ==
    /\ candidates = cands
    /\ arole = role
    /\ response = resp
    /\ called = FALSE
    /\ bundle = NoBundle
    /\ apc = "idle"

\* The content of the status file: its "status" and, when the key is there,
\* the percentage of its "overall_progress".
StatusData(status, has_overall, percentage) ==
    [status |-> status, has_overall |-> has_overall, percentage |-> percentage]

\* No status file: no run has written one.
NoStatus == StatusData("none", FALSE, 0)

\* No pipeline run has started; its video has `total` frames to generate.
StatusIdle(total) ==
    /\ status_file = NoStatus
    /\ highest = 0
    /\ ppc = "idle"
    /\ ptotal = total
    /\ pseen = 0
    /\ pdone = 0

ChatIdle ==
    /\ RequestIdle
    /\ ExpandIdle(Str(<<>>, FALSE))
    /\ AnswerIdle(<<>>, "actor", NoReply)

Init ==
    /\ ChatIdle
    /\ StatusIdle(0)
    /\ SearchIdle(<<>>)
    /\ analysisOut = FALSE
    /\ files = [f \in FileNames |-> Absent]
    /\ pc = [b \in Builders |-> "idle"]
    /\ frames = [b \in Builders |-> <<>>]
    /\ idx = [b \in Builders |-> 0]
    /\ technical_embeddings = [b \in Builders |-> <<>>]
    /\ content_embeddings = [b \in Builders |-> <<>>]
    /\ metadata = [b \in Builders |-> <<>>]
    /\ err = [b \in Builders |-> ""]
    /\ wrote = [b \in Builders |-> {}]
    /\ embed_errors = [b \in Builders |-> {}]
    /\ loaded_indices = [t \in IndexTypes |-> NotCached]
    /\ loads = [t \in IndexTypes |-> 0]
    /\ rpc = [r \in Readers |-> "idle"]
    /\ rtype = [r \in Readers |-> "content"]
    /\ rindex = [r \in Readers |-> <<>>]
    /\ rmeta = [r \in Readers |-> <<>>]

\* ------------------------------------------------- readiness predicates
vector_db_exists ==
    /\ files["technical"].exists
    /\ files["content"].exists
    /\ files["metadata"].exists

is_analyzed == analysisOut

\* --------------------------------------------------------------- pipeline
\* POST /analyze-video: schedules a run unless the analysis output exists.
analyze_video(b) ==
    /\ UNCHANGED <<loadVars, searchVars, chatVars, statusVars>>
    /\ pc[b] \in {"idle", "failed"}
    /\ ~is_analyzed
    /\ pc' = [pc EXCEPT ![b] = "scheduled"]
    /\ frames' = [frames EXCEPT ![b] = <<>>]
    /\ idx' = [idx EXCEPT ![b] = 0]
    /\ technical_embeddings' = [technical_embeddings EXCEPT ![b] = <<>>]
    /\ content_embeddings' = [content_embeddings EXCEPT ![b] = <<>>]
    /\ metadata' = [metadata EXCEPT ![b] = <<>>]
    /\ err' = [err EXCEPT ![b] = ""]
    /\ wrote' = [wrote EXCEPT ![b] = {}]
    /\ embed_errors' = [embed_errors EXCEPT ![b] = {}]
    /\ UNCHANGED <<analysisOut, files>>

\* What analyze_frames saves for n analysed frames: json_to_embedding_text_dual
\* always yields two non-empty texts.
AnalysedFrames(n) == [i \in 1..n |-> Frame(i - 1, TRUE, TRUE)]

\* Steps 0-2 of process_video_analysis: frames are generated and analysed and the
\* analysis output is saved (a failed batch leaves its frames out); the run
\* then enters build_vector_database.
analyze_frames(b) ==
    /\ UNCHANGED <<loadVars, searchVars, chatVars, statusVars>>
    /\ pc[b] = "scheduled"
    /\ \E n \in 0..MaxFrames : frames' = [frames EXCEPT ![b] = AnalysedFrames(n)]
    /\ analysisOut' = TRUE
    /\ pc' = [pc EXCEPT ![b] = "build"]
    /\ UNCHANGED <<files, idx, technical_embeddings, content_embeddings,
                   metadata, err, wrote, embed_errors>>

\* build_vector_database called with any analysis output (its whole input
\* domain, frames without texts included); a builder makes one such call.
build_vector_database(b) ==
    /\ UNCHANGED <<loadVars, searchVars, chatVars, statusVars>>
    /\ pc[b] = "idle"
    /\ \E fl \in FrameLists : frames' = [frames EXCEPT ![b] = fl]
    /\ pc' = [pc EXCEPT ![b] = "build"]
    /\ idx' = [idx EXCEPT ![b] = 0]
    /\ technical_embeddings' = [technical_embeddings EXCEPT ![b] = <<>>]
    /\ content_embeddings' = [content_embeddings EXCEPT ![b] = <<>>]
    /\ metadata' = [metadata EXCEPT ![b] = <<>>]
    /\ err' = [err EXCEPT ![b] = ""]
    /\ wrote' = [wrote EXCEPT ![b] = {}]
    /\ embed_errors' = [embed_errors EXCEPT ![b] = {}]
    /\ UNCHANGED <<analysisOut, files>>

\* Steps 0-2 raise (ffmpeg, the analysis client): the run ends failed and no
\* analysis output is saved.
pipeline_fails(b) ==
    /\ UNCHANGED <<loadVars, searchVars, chatVars, statusVars>>
    /\ pc[b] = "scheduled"
    /\ pc' = [pc EXCEPT ![b] = "failed"]
    /\ err' = [err EXCEPT ![b] = "Exception"]
    /\ UNCHANGED <<analysisOut, files, frames, idx, technical_embeddings,
                   content_embeddings, metadata, wrote, embed_errors>>

\* ------------------------------------------------- build_vector_database
\* The build raises: process_video_analysis catches it and marks the run failed.
Raise(b, exc) ==
    /\ pc' = [pc EXCEPT ![b] = "failed"]
    /\ err' = [err EXCEPT ![b] = exc]

\* Entry: `if not frames: raise ValueError`.  (The GEMINI_API_KEY check cannot
\* fail here: analyze_frames made the same check in the same process.)
build_start(b) ==
    /\ UNCHANGED <<loadVars, searchVars, chatVars, statusVars>>
    /\ pc[b] = "build"
    /\ IF frames[b] = <<>>
          THEN Raise(b, "ValueError")
          ELSE /\ pc' = [pc EXCEPT ![b] = "embedding"]
               /\ UNCHANGED err
    /\ UNCHANGED <<analysisOut, files, frames, idx, technical_embeddings,
                   content_embeddings, metadata, wrote, embed_errors>>

\* `if not embedding_text_technical or not embedding_text_content: continue`
HasBothTexts(frame) ==
    /\ frame.embedding_text_technical # NoText
    /\ frame.embedding_text_content # NoText

\* The lists after one loop iteration in which the texts were present; techOk and
\* contOk say whether the two get_embedding calls returned.  Both appends and the
\* metadata append come after both calls, inside the try; the frame file name
\* formatted between them (f"frame_{second:05d}.jpg") is defined for every
\* integer second, which is what a frame's second is.
\* Faulty variant: the technical embedding is appended as soon as its own call returns,
\* before the content call.
TechAfterEarly(tech, frame, techOk, contOk) ==
    IF techOk
       THEN Append(tech, Embedding(frame.embedding_text_technical))
       ELSE tech

TechAfter(tech, frame, techOk, contOk) ==
    IF techOk /\ contOk
       THEN Append(tech, Embedding(frame.embedding_text_technical))
       ELSE tech

ContAfter(cont, frame, techOk, contOk) ==
    IF techOk /\ contOk
       THEN Append(cont, Embedding(frame.embedding_text_content))
       ELSE cont

MetaRow(position, frame) ==
    [index |-> position,
     second |-> frame.second,
     embedding_text_technical |-> frame.embedding_text_technical,
     embedding_text_content |-> frame.embedding_text_content]

\* Faulty variant: the metadata row is appended before the embedding calls are made.
MetaAfterBeforeCalls(meta, tech, frame, techOk, contOk) ==
    Append(meta, MetaRow(Len(tech), frame))

MetaAfter(meta, tech, frame, techOk, contOk) ==
    IF techOk /\ contOk
       THEN Append(meta, MetaRow(Len(TechAfter(tech, frame, techOk, contOk)) - 1, frame))
       ELSE meta

\* `except Exception as e: logger.error(...); continue`
ErrorsAfter(errors, frame, techOk, contOk) ==
    IF techOk /\ contOk THEN errors ELSE errors \cup {frame.second}

\* One iteration of `for idx, frame in enumerate(frames, 1)`.
embed_frame(b) ==
    /\ UNCHANGED <<loadVars, searchVars, chatVars, statusVars>>
    /\ pc[b] = "embedding"
    /\ idx[b] < Len(frames[b])
    /\ LET frame == frames[b][idx[b] + 1] IN
         IF ~HasBothTexts(frame)
            THEN UNCHANGED <<technical_embeddings, content_embeddings, metadata,
                             embed_errors>>
            ELSE \E techOk, contOk \in BOOLEAN :
                   /\ technical_embeddings' = [technical_embeddings EXCEPT ![b] =
                          TechAfter(@, frame, techOk, contOk)]
                   /\ content_embeddings' = [content_embeddings EXCEPT ![b] =
                          ContAfter(@, frame, techOk, contOk)]
                   /\ metadata' = [metadata EXCEPT ![b] =
                          MetaAfter(@, technical_embeddings[b], frame, techOk, contOk)]
                   /\ embed_errors' = [embed_errors EXCEPT ![b] =
                          ErrorsAfter(@, frame, techOk, contOk)]
    /\ idx' = [idx EXCEPT ![b] = @ + 1]
    /\ UNCHANGED <<analysisOut, files, pc, frames, err, wrote>>

\* Faulty variant: the metadata is saved before the indices are built.
WriteOrderMetadataFirst == <<"metadata", "technical", "content">>

\* The order of the three writes of build_vector_database.
WriteOrder == <<"technical", "content", "metadata">>

WriteStep(name) == CHOOSE i \in 1..Len(WriteOrder) : WriteOrder[i] = name

PcOfWrite(i) == IF i > Len(WriteOrder) THEN "completed"
                ELSE IF WriteOrder[i] = "technical" THEN "write_technical"
                ELSE IF WriteOrder[i] = "content" THEN "write_content"
                ELSE "write_metadata"

\* Faulty variant: the check after the loop is missing.
NoEmbeddingsUnchecked(tech, cont) == FALSE

\* `if not technical_embeddings or not content_embeddings: raise ValueError`
NoEmbeddings(tech, cont) == tech = <<>> \/ cont = <<>>

check_embeddings(b) ==
    /\ UNCHANGED <<loadVars, searchVars, chatVars, statusVars>>
    /\ pc[b] = "embedding"
    /\ idx[b] = Len(frames[b])
    /\ IF NoEmbeddings(technical_embeddings[b], content_embeddings[b])
          THEN Raise(b, "ValueError")
          ELSE /\ pc' = [pc EXCEPT ![b] = PcOfWrite(1)]
               /\ UNCHANGED err
    /\ UNCHANGED <<analysisOut, files, frames, idx, technical_embeddings,
                   content_embeddings, metadata, wrote, embed_errors>>

\* _build_single_index(video_id, embeddings, role): faiss.write_index
WriteFile(b, name, data) ==
    /\ files' = [files EXCEPT ![name] = Stored(data)]
    /\ wrote' = [wrote EXCEPT ![b] = @ \cup {name}]

write_technical(b) ==
    /\ UNCHANGED <<loadVars, searchVars, chatVars, statusVars>>
    /\ pc[b] = "write_technical"
    /\ WriteFile(b, "technical", technical_embeddings[b])
    /\ pc' = [pc EXCEPT ![b] = PcOfWrite(WriteStep("technical") + 1)]
    /\ UNCHANGED <<analysisOut, frames, idx, technical_embeddings,
                   content_embeddings, metadata, err, embed_errors>>

write_content(b) ==
    /\ UNCHANGED <<loadVars, searchVars, chatVars, statusVars>>
    /\ pc[b] = "write_content"
    /\ WriteFile(b, "content", content_embeddings[b])
    /\ pc' = [pc EXCEPT ![b] = PcOfWrite(WriteStep("content") + 1)]
    /\ UNCHANGED <<analysisOut, frames, idx, technical_embeddings,
                   content_embeddings, metadata, err, embed_errors>>

\* `with open(metadata_file, "w") as f: json.dump(metadata, f)`; the build then
\* returns and the pipeline marks the run completed.
write_metadata(b) ==
    /\ UNCHANGED <<loadVars, searchVars, chatVars, statusVars>>
    /\ pc[b] = "write_metadata"
    /\ WriteFile(b, "metadata", metadata[b])
    /\ pc' = [pc EXCEPT ![b] = PcOfWrite(WriteStep("metadata") + 1)]
    /\ UNCHANGED <<analysisOut, frames, idx, technical_embeddings,
                   content_embeddings, metadata, err, embed_errors>>

\* A write raises (disk full, permissions): the build aborts where it stands.
write_fails(b) ==
    /\ UNCHANGED <<loadVars, searchVars, chatVars, statusVars>>
    /\ pc[b] \in {"write_technical", "write_content", "write_metadata"}
    /\ Raise(b, "IOError")
    /\ UNCHANGED <<analysisOut, files, frames, idx, technical_embeddings,
                   content_embeddings, metadata, wrote, embed_errors>>

\* ------------------------------------------------------ chat / _load_index
\* `if role == "director" ... elif role == "producer" ... else` of search
IndexTypeOf(role) ==
    IF role = "director" THEN "technical"
    ELSE IF role = "producer" THEN "production"
    ELSE "content"

\* `if not os.path.exists(vector_db_file) or not os.path.exists(metadata_file)`
IndexFilesExist(t) == files[t].exists /\ files["metadata"].exists

\* Where _load_index goes from its entry: a cache hit returns the cached entry,
\* a missing file raises FileNotFoundError, otherwise the files are read.
LoadEntry(t) ==
    IF loaded_indices[t].cached THEN "idle"
    ELSE IF IndexFilesExist(t) THEN "read_index"
    ELSE "not_found"

\* POST /chat: the role is validated, vector_db_exists is required, and
\* search_with_answer -> search -> _load_index is entered.  (No file is ever
\* deleted, so the existence checks of the handler and of _load_index give the
\* same answers as one check.)
chat(r) ==
    /\ rpc[r] \in {"idle", "not_found"}
    /\ vector_db_exists
    /\ \E role \in Roles :
         /\ rtype' = [rtype EXCEPT ![r] = IndexTypeOf(role)]
         /\ rpc' = [rpc EXCEPT ![r] = LoadEntry(IndexTypeOf(role))]
    /\ UNCHANGED <<chatVars, statusVars, buildVars, searchVars, loaded_indices, loads, rindex, rmeta>>

\* index = faiss.read_index(vector_db_file)
load_read_index(r) ==
    /\ rpc[r] = "read_index"
    /\ rindex' = [rindex EXCEPT ![r] = files[rtype[r]].data]
    /\ loads' = [loads EXCEPT ![rtype[r]] = @ + 1]
    /\ rpc' = [rpc EXCEPT ![r] = "read_metadata"]
    /\ UNCHANGED <<chatVars, statusVars, buildVars, searchVars, loaded_indices, rtype, rmeta>>

\* metadata = json.load(f)
load_read_metadata(r) ==
    /\ rpc[r] = "read_metadata"
    /\ rmeta' = [rmeta EXCEPT ![r] = files["metadata"].data]
    /\ rpc' = [rpc EXCEPT ![r] = "store"]
    /\ UNCHANGED <<chatVars, statusVars, buildVars, searchVars, loaded_indices, loads, rtype, rindex>>

\* self._loaded_indices[cache_key] = {...}; return
load_store(r) ==
    /\ rpc[r] = "store"
    /\ loaded_indices' = [loaded_indices EXCEPT ![rtype[r]] = Entry(rindex[r], rmeta[r])]
    /\ rpc' = [rpc EXCEPT ![r] = "idle"]
    /\ rindex' = [rindex EXCEPT ![r] = <<>>]
    /\ rmeta' = [rmeta EXCEPT ![r] = <<>>]
    /\ UNCHANGED <<chatVars, statusVars, buildVars, searchVars, loads, rtype>>

\* ------------------------------------------------------------------ search
Min(a, b) == IF a <= b THEN a ELSE b

Abs(x) == IF x < 0 THEN -x ELSE x

\* The metadata tables of 1..rows rows a build can leave: row i at position
\* i-1, seconds increasing (frames are analysed in file-name order) from second 0
\* (ffmpeg numbers the frames from 0); later frames may be missing.
MetaTables(rows) ==
    { m \in UNION { [1..n -> 0..MaxSecond] : n \in 1..rows } :
        /\ m[1] = 0
        /\ \A i \in 1..(Len(m) - 1) : m[i] < m[i + 1] }

Scores == 1..MaxScore

\* index.search(query_embedding, k): the k nearest positions (indices[0]) and
\* their scores (scores[0]), by score descending; which positions are near, and
\* the order among equal scores, are the embedder's and the library's.
FaissAnswers(ntotal, k) ==
    { [indices |-> o, scores |-> sc] :
        o \in { f \in [1..k -> 1..ntotal] : \A i, j \in 1..k : i # j => f[i] # f[j] },
        sc \in { g \in [1..k -> Scores] : \A i \in 1..(k - 1) : g[i] >= g[i + 1] } }

\* fetch_k = top_k * 3 if role == "producer" else top_k * 2
FetchK(role, top_k) == IF role = "producer" THEN top_k * 3 ELSE top_k * 2

\* Faulty variant: the window test is strict.
IsDuplicateStrict(second, accepted) ==
    \E i \in 1..Len(accepted) : Abs(second - accepted[i].second) < TIME_THRESHOLD

\* `if abs(second - seen_ts) <= TIME_THRESHOLD` over the seconds accepted so far
IsDuplicate(second, accepted) ==
    \E i \in 1..Len(accepted) : Abs(second - accepted[i].second) <= TIME_THRESHOLD

\* The result dict of a hit: second and score, and under `index` the metadata
\* row its frame_path, scene_id and role payload are taken from.
Result(meta, position, score) ==
    [second |-> meta[position], score |-> score, index |-> position - 1]

\* The loop `for score, idx in zip(scores[0], indices[0])` from hit i on, with
\* the results accepted so far; `break` once top_k are accepted.
RECURSIVE ScanHits(_, _, _, _, _)
ScanHits(meta, answer, top_k, i, accepted) ==
    IF i > Len(answer.indices) THEN accepted
    ELSE LET second == meta[answer.indices[i]] IN
         IF IsDuplicate(second, accepted)
            THEN ScanHits(meta, answer, top_k, i + 1, accepted)
            ELSE LET acc == Append(accepted,
                                   Result(meta, answer.indices[i], answer.scores[i])) IN
                 IF Len(acc) >= top_k THEN acc
                 ELSE ScanHits(meta, answer, top_k, i + 1, acc)

\* list.sort(key=second): a stable insertion sort.
RECURSIVE InsertBySecond(_, _)
InsertBySecond(sorted, r) ==
    IF sorted = <<>> THEN <<r>>
    ELSE IF sorted[Len(sorted)].second <= r.second THEN Append(sorted, r)
    ELSE Append(InsertBySecond(SubSeq(sorted, 1, Len(sorted) - 1), r),
                sorted[Len(sorted)])

RECURSIVE SortBySecond(_)
SortBySecond(seq) ==
    IF seq = <<>> THEN <<>>
    ELSE InsertBySecond(SortBySecond(SubSeq(seq, 1, Len(seq) - 1)), seq[Len(seq)])

\* The hits in the opposite order.
ReverseHits(answer) ==
    LET n == Len(answer.indices)
    IN [indices |-> [i \in 1..n |-> answer.indices[n + 1 - i]],
        scores |-> [i \in 1..n |-> answer.scores[n + 1 - i]]]

\* Faulty variant: the hits are scanned from the lowest score up.
SearchAscending(meta, answer, top_k) ==
    SortBySecond(ScanHits(meta, ReverseHits(answer), top_k, 1, <<>>))

\* RetrieverService.search on a loaded entry, given the library's answer.
Search(meta, answer, top_k) ==
    SortBySecond(ScanHits(meta, answer, top_k, 1, <<>>))

\* A direct call search(video_id, query, role, top_k) on the loaded entry.  The
\* producer role maps to the production index, which no build writes: the load
\* raises FileNotFoundError and nothing is returned.
search(role, top_k) ==
    /\ spc = "ready"
    /\ srole' = role
    /\ stopk' = top_k
    /\ IF IndexTypeOf(role) = "production"
          THEN /\ results' = <<>>
               /\ hits' = NoHits
               /\ spc' = "not_found"
          ELSE /\ \E a \in FaissAnswers(Len(smeta), Min(FetchK(role, top_k), Len(smeta))) :
                    /\ hits' = a
                    /\ results' = Search(smeta, a, top_k)
               /\ spc' = "searched"
    /\ UNCHANGED <<chatVars, statusVars, buildVars, loadVars, smeta, all_candidates, best_returned, variants_left,
                   raw_results>>

\* The caller takes the answer (search returns its list, search_with_answer
\* what _generate_answer makes of raw_results); the service is ready for the
\* next request.
search_return ==
    /\ spc \in {"searched", "not_found", "ranked", "failed"}
    /\ spc' = "ready"
    /\ srole' = "actor"
    /\ stopk' = DEFAULT_TOP_K
    /\ hits' = NoHits
    /\ results' = <<>>
    /\ all_candidates' = <<>>
    /\ best_returned' = << >>
    /\ raw_results' = <<>>
    /\ UNCHANGED <<chatVars, statusVars, buildVars, loadVars, smeta, variants_left>>

\* Faulty variant: a later result always replaces the held one.
ReplacesAlways(result, held) == TRUE

\* `if second not in all_candidates or result["score"] > all_candidates[second]["score"]`
Replaces(result, held) == result.score > held.score

\* all_candidates[second] = result, on the dict in key insertion order.
MergeOne(cands, result) ==
    IF \E i \in 1..Len(cands) : cands[i].second = result.second
       THEN [i \in 1..Len(cands) |->
                IF cands[i].second = result.second /\ Replaces(result, cands[i])
                   THEN result ELSE cands[i]]
       ELSE Append(cands, result)

\* `for result in results:` of one variant.
RECURSIVE MergeResults(_, _)
MergeResults(cands, res) ==
    IF res = <<>> THEN cands
    ELSE MergeResults(MergeOne(cands, res[1]), Tail(res))

\* search_with_answer entry: expanded_queries = _expand_query(query, role), 1 to 5
\* variants; all_candidates = {}.  For the producer role the first search raises
\* FileNotFoundError, as in search.
search_with_answer(role, top_k, nvariants) ==
    /\ spc = "ready"
    /\ srole' = role
    /\ stopk' = top_k
    /\ variants_left' = IF IndexTypeOf(role) = "production" THEN 0 ELSE nvariants
    /\ all_candidates' = <<>>
    /\ best_returned' = << >>
    /\ results' = <<>>
    /\ spc' = IF IndexTypeOf(role) = "production" THEN "not_found" ELSE "expanding"
    /\ UNCHANGED <<chatVars, statusVars, buildVars, loadVars, smeta, hits, raw_results>>

Max(a, b) == IF a >= b THEN a ELSE b

\* The record of what the variants returned: for each second any of them
\* returned, the highest score it came with.
BestAfter(best, res) ==
    LET new == { res[i].second : i \in 1..Len(res) }
        ScoreIn(s) == (CHOOSE i \in 1..Len(res) : res[i].second = s)
    IN [s \in DOMAIN best \cup new |->
            IF s \notin new THEN best[s]
            ELSE IF s \notin DOMAIN best THEN res[ScoreIn(s)].score
            ELSE Max(best[s], res[ScoreIn(s)].score)]

\* One iteration of `for exp_query in expanded_queries`: search with top_k=10 and
\* merge its results.
search_variant ==
    /\ spc = "expanding"
    /\ variants_left > 0
    /\ \E a \in FaissAnswers(Len(smeta), Min(FetchK(srole, VARIANT_TOP_K), Len(smeta))) :
            LET res == Search(smeta, a, VARIANT_TOP_K) IN
              /\ results' = res
              /\ all_candidates' = MergeResults(all_candidates, res)
              /\ best_returned' = BestAfter(best_returned, res)
    /\ variants_left' = variants_left - 1
    /\ spc' = IF variants_left = 1 THEN "merged" ELSE "expanding"
    /\ UNCHANGED <<chatVars, statusVars, buildVars, loadVars, smeta, srole, stopk, hits, raw_results>>

\* One iteration of `for exp_query in expanded_queries` in which the embed call
\* (or index.search) of self.search raises: _get_query_embedding re-raises as
\* Exception, and neither search nor the loop catches it, so it leaves
\* search_with_answer; the variants after it are not searched.  all_candidates
\* and best_returned keep what the earlier variants gave, variants_left what
\* was still to do after the failing variant.
search_variant_fails ==
    /\ spc = "expanding"
    /\ variants_left > 0
    /\ variants_left' = variants_left - 1
    /\ spc' = "failed"
    /\ UNCHANGED <<chatVars, statusVars, buildVars, loadVars, smeta, srole, stopk, hits, results,
                   all_candidates, best_returned, raw_results>>

\* sorted(..., key=score, reverse=True): a stable sort, equal scores keep the
\* order of the dict.
RECURSIVE InsertByScoreDesc(_, _)
InsertByScoreDesc(sorted, r) ==
    IF sorted = <<>> THEN <<r>>
    ELSE IF sorted[Len(sorted)].score >= r.score THEN Append(sorted, r)
    ELSE Append(InsertByScoreDesc(SubSeq(sorted, 1, Len(sorted) - 1), r),
                sorted[Len(sorted)])

RECURSIVE SortByScoreDesc(_)
SortByScoreDesc(seq) ==
    IF seq = <<>> THEN <<>>
    ELSE InsertByScoreDesc(SortByScoreDesc(SubSeq(seq, 1, Len(seq) - 1)), seq[Len(seq)])

\* seq[:top_k] for top_k >= 0
Take(seq, top_k) == SubSeq(seq, 1, Min(top_k, Len(seq)))

\* Faulty variant: the slice is not sorted by second again.
RankResultsByScoreOnly(cands, top_k) == Take(SortByScoreDesc(cands), top_k)

\* raw_results = sorted(all_candidates.values(), key=score, reverse=True)[:top_k]
\* raw_results.sort(key=second)
RankResults(cands, top_k) == SortBySecond(Take(SortByScoreDesc(cands), top_k))

\* The two sorts of search_with_answer after the loop over the variants.
rank_results ==
    /\ spc = "merged"
    /\ raw_results' = RankResults(all_candidates, stopk)
    /\ spc' = "ranked"
    /\ UNCHANGED <<chatVars, statusVars, buildVars, loadVars, smeta, srole, stopk, hits, results,
                   all_candidates, best_returned, variants_left>>

\* The steps of build_vector_database once entered.
BuildSteps(b) ==
    \/ build_start(b)
    \/ embed_frame(b)
    \/ check_embeddings(b)
    \/ write_technical(b)
    \/ write_content(b)
    \/ write_metadata(b)
    \/ write_fails(b)

PipelineNext(b) ==
    \/ analyze_video(b)
    \/ analyze_frames(b)
    \/ pipeline_fails(b)
    \/ BuildSteps(b)

LoadNext(r) ==
    \/ chat(r)
    \/ load_read_index(r)
    \/ load_read_metadata(r)
    \/ load_store(r)

\* The service: pipeline runs and chat requests on one video.
Next ==
    \/ \E b \in Builders : PipelineNext(b)
    \/ \E r \in Readers : LoadNext(r)

Spec == Init /\ [][Next]_vars

\* The index builder alone, over its whole input domain, builds and rebuilds.
NextBuild ==
    \E b \in Builders :
        \/ build_vector_database(b)
        \/ BuildSteps(b)

SpecBuild == Init /\ [][NextBuild]_vars

\* Retrieval on a built video: the loaded metadata is any table of up to `rows`
\* rows a build can leave, and requests run one at a time.
InitRetrieval(rows) ==
    /\ ChatIdle
    /\ StatusIdle(0)
    /\ \E m \in MetaTables(rows) : SearchIdle(m)
    /\ analysisOut = FALSE
    /\ files = [f \in FileNames |-> Absent]
    /\ pc = [b \in Builders |-> "idle"]
    /\ frames = [b \in Builders |-> <<>>]
    /\ idx = [b \in Builders |-> 0]
    /\ technical_embeddings = [b \in Builders |-> <<>>]
    /\ content_embeddings = [b \in Builders |-> <<>>]
    /\ metadata = [b \in Builders |-> <<>>]
    /\ err = [b \in Builders |-> ""]
    /\ wrote = [b \in Builders |-> {}]
    /\ embed_errors = [b \in Builders |-> {}]
    /\ loaded_indices = [t \in IndexTypes |-> NotCached]
    /\ loads = [t \in IndexTypes |-> 0]
    /\ rpc = [r \in Readers |-> "idle"]
    /\ rtype = [r \in Readers |-> "content"]
    /\ rindex = [r \in Readers |-> <<>>]
    /\ rmeta = [r \in Readers |-> <<>>]

\* Direct calls of the single-query search.
InitSearch == InitRetrieval(MaxIndex)

NextSearch ==
    \/ \E role \in RequestRoles, top_k \in 1..MaxTopK : search(role, top_k)
    \/ search_return

SpecSearch == InitSearch /\ [][NextSearch]_vars

\* Direct calls on an index that holds more vectors than fetch_k = top_k * 2
\* asks index.search for.
InitScan == InitRetrieval(MaxScanIndex)

SpecScan == InitScan /\ [][NextSearch]_vars

\* Calls of search_with_answer: query expansion, one search per variant, merge.
InitMerge == InitRetrieval(MaxMergeIndex)

NextMerge ==
    \/ \E role \in RequestRoles, top_k \in 1..MaxTopK, nv \in 1..MaxVariants :
           search_with_answer(role, top_k, nv)
    \/ search_variant
    \/ search_variant_fails
    \/ rank_results
    \/ search_return

SpecMerge == InitMerge /\ [][NextMerge]_vars


\* ------------------------------------------------------------ POST /chat
\* Everything but the /chat handler is at rest, on an unbuilt video.
ServiceIdle ==
    /\ SearchIdle(<<>>)
    /\ analysisOut = FALSE
    /\ files = [f \in FileNames |-> Absent]
    /\ pc = [b \in Builders |-> "idle"]
    /\ frames = [b \in Builders |-> <<>>]
    /\ idx = [b \in Builders |-> 0]
    /\ technical_embeddings = [b \in Builders |-> <<>>]
    /\ content_embeddings = [b \in Builders |-> <<>>]
    /\ metadata = [b \in Builders |-> <<>>]
    /\ err = [b \in Builders |-> ""]
    /\ wrote = [b \in Builders |-> {}]
    /\ embed_errors = [b \in Builders |-> {}]
    /\ loaded_indices = [t \in IndexTypes |-> NotCached]
    /\ loads = [t \in IndexTypes |-> 0]
    /\ rpc = [r \in Readers |-> "idle"]
    /\ rtype = [r \in Readers |-> "content"]
    /\ rindex = [r \in Readers |-> <<>>]
    /\ rmeta = [r \in Readers |-> <<>>]

\* ChatRequest objects: `top_k: Optional[int] = 5` is given in the body, or left
\* out and filled in with the default; top_k_given records which.
Requests ==
    { [role |-> r, top_k_given |-> TRUE, top_k |-> k] :
        r \in RequestRoles, k \in 1..MaxRequestTopK }
    \cup { [role |-> r, top_k_given |-> FALSE, top_k |-> CHAT_DEFAULT_TOP_K] :
             r \in RequestRoles }

\* top_k = request.top_k
\* if request.role == "producer" and request.top_k == 5: top_k = 15
EffectiveTopK(req) ==
    IF req.role = "producer" /\ req.top_k = 5
       THEN PRODUCER_TOP_K
       ELSE req.top_k

\* A request arrives.
chat_receive ==
    /\ cpc = "idle"
    /\ \E req \in Requests : request' = req
    /\ cpc' = "received"
    /\ UNCHANGED <<buildVars, loadVars, searchVars, expandVars, answerVars, statusVars, chat_top_k>>

\* The handler up to the call of search_with_answer: a role outside the three
\* is answered 400, otherwise top_k is set.
chat_top_k_set ==
    /\ cpc = "received"
    /\ IF request.role \notin Roles
          THEN /\ cpc' = "rejected"
               /\ UNCHANGED chat_top_k
          ELSE /\ cpc' = "searching"
               /\ chat_top_k' = EffectiveTopK(request)
    /\ UNCHANGED <<buildVars, loadVars, searchVars, expandVars, answerVars, statusVars, request>>

\* The response is sent.
chat_respond ==
    /\ cpc \in {"rejected", "searching"}
    /\ cpc' = "idle"
    /\ request' = NoRequest
    /\ chat_top_k' = CHAT_DEFAULT_TOP_K
    /\ UNCHANGED <<buildVars, loadVars, searchVars, expandVars, answerVars, statusVars>>

InitChat == ServiceIdle /\ ChatIdle /\ StatusIdle(0)

\* -------------------------------------------------------- _expand_query
\* The synonym tables, in dict order.
emotion_map ==
    << [base |-> "romantic", synonyms |-> <<"romantic", "intimate", "loving", "tender", "affectionate", "passionate">>],
       [base |-> "emotional", synonyms |-> <<"emotional", "touching", "moving", "heartfelt", "poignant">>],
       [base |-> "happy", synonyms |-> <<"happy", "joyful", "cheerful", "content", "pleased", "delighted">>],
       [base |-> "sad", synonyms |-> <<"sad", "melancholic", "sorrowful", "upset", "unhappy", "grieving">>],
       [base |-> "tense", synonyms |-> <<"tense", "anxious", "nervous", "worried", "stressed", "uneasy">>],
       [base |-> "peaceful", synonyms |-> <<"peaceful", "calm", "serene", "tranquil", "relaxed", "quiet">>],
       [base |-> "angry", synonyms |-> <<"angry", "furious", "rage", "mad", "irritated", "hostile">>] >>

location_map ==
    << [base |-> "beach", synonyms |-> <<"beach", "seaside", "ocean", "shore", "coast", "waterfront">>],
       [base |-> "woods", synonyms |-> <<"woods", "forest", "trees", "woodland", "nature">>],
       [base |-> "city", synonyms |-> <<"city", "urban", "street", "downtown", "metropolitan">>],
       [base |-> "indoor", synonyms |-> <<"indoor", "inside", "interior", "room">>] >>

action_map ==
    << [base |-> "walking", synonyms |-> <<"walking", "strolling", "pacing", "moving">>],
       [base |-> "running", synonyms |-> <<"running", "sprinting", "rushing", "hurrying">>],
       [base |-> "fighting", synonyms |-> <<"fighting", "combat", "battle", "struggle">>],
       [base |-> "talking", synonyms |-> <<"talking", "speaking", "conversing", "discussing">>] >>

BasesOf(map) == { map[i].base : i \in 1..Len(map) }

\* The words of the queries considered: every table term and a word that is none.
QueryWords == BasesOf(emotion_map) \cup BasesOf(location_map) \cup BasesOf(action_map)
                  \cup {"scene"}

Queries ==
    { Str(w, c) : w \in UNION { [1..n -> QueryWords] : n \in 0..MaxQueryWords },
                  c \in BOOLEAN }

\* query.lower()
Lower(s) == Str(s.words, FALSE)

\* `base in query_lower`
Contains(s, base) == \E i \in 1..Len(s.words) : s.words[i] = base

\* query_lower.replace(base, synonym)
Replace(s, base, synonym) ==
    Str([i \in 1..Len(s.words) |-> IF s.words[i] = base THEN synonym ELSE s.words[i]],
        s.cased)

\* `for synonym in synonyms[:n]: expanded = ...; if expanded != query_lower: append`
\* from synonym k on.
RECURSIVE ExpandSynonyms(_, _, _, _, _)
ExpandSynonyms(exps, query_lower, entry, n, k) ==
    IF k > n \/ k > Len(entry.synonyms) THEN exps
    ELSE LET expanded == Replace(query_lower, entry.base, entry.synonyms[k]) IN
         ExpandSynonyms(IF expanded # query_lower THEN Append(exps, expanded) ELSE exps,
                        query_lower, entry, n, k + 1)

\* `for base, synonyms in map.items(): if base in query_lower: ...` from entry e on.
RECURSIVE ExpandMap(_, _, _, _, _)
ExpandMap(exps, query_lower, map, n, e) ==
    IF e > Len(map) THEN exps
    ELSE ExpandMap(IF Contains(query_lower, map[e].base)
                      THEN ExpandSynonyms(exps, query_lower, map[e], n, 1)
                      ELSE exps,
                   query_lower, map, n, e + 1)

\* Remove duplicates while preserving order.
RECURSIVE Unique(_, _)
Unique(seq, seen) ==
    IF seq = <<>> THEN <<>>
    ELSE IF seq[1] \in seen THEN Unique(Tail(seq), seen)
    ELSE <<seq[1]>> \o Unique(Tail(seq), seen \cup {seq[1]})

\* Faulty variant: the list is returned whole.
CutExpansionsNot(seq) == seq

\* unique_expansions[:5]
CutExpansions(seq) == SubSeq(seq, 1, Min(MAX_EXPANSIONS, Len(seq)))

\* _expand_query(query, role)
ExpandQuery(q) ==
    LET query_lower == Lower(q)
        e1 == ExpandMap(<<q>>, query_lower, emotion_map, EMOTION_SYNONYMS, 1)
        e2 == ExpandMap(e1, query_lower, location_map, LOCATION_SYNONYMS, 1)
        e3 == ExpandMap(e2, query_lower, action_map, ACTION_SYNONYMS, 1)
    IN CutExpansions(Unique(e3, {}))

expand_query ==
    /\ epc = "idle"
    /\ expansions' = ExpandQuery(query)
    /\ epc' = "expanded"
    /\ UNCHANGED <<buildVars, loadVars, searchVars, requestVars, answerVars, statusVars, query>>

InitExpand ==
    /\ ServiceIdle
    /\ StatusIdle(0)
    /\ RequestIdle
    /\ AnswerIdle(<<>>, "actor", NoReply)
    /\ \E q \in Queries : ExpandIdle(q)

NextExpand == expand_query

SpecExpand == InitExpand /\ [][NextExpand]_vars

\* ----------------------------------------------------- _generate_answer
\* A candidate of the `results` list: its second, its similarity score and the
\* form of content_info["emotions"] ("dict": the dict of the current analysis
\* format, or a list of dicts; "strings": a list of emotion names, the list
\* form that analysis_service.normalize_list accepts).
Candidate(second, score, emotions) ==
    [second |-> second, score |-> score, emotions |-> emotions]

EmotionForms == {"dict", "strings"}

\* Lists of n candidates as search_with_answer hands them over: distinct
\* seconds, ascending (the list is sorted by second before the call).
CandidateLists(n, scores, forms) ==
    { [i \in 1..n |-> Candidate(i - 1, sc[i], fm[i])] :
        sc \in [1..n -> scores], fm \in [1..n -> forms] }

CandidateListsUpTo(n, scores, forms) ==
    UNION { CandidateLists(m, scores, forms) : m \in 0..n }

\* The comma-separated tokens of a RELEVANT line.  A number token is a run of
\* ASCII digits; a superscript token is a digit character such as U+00B2, for
\* which str.isdigit() is True and int() raises ValueError; a none token is
\* the word "none" in any case, which beside other tokens is one more
\* non-numeric word.
Number(k) == [kind |-> "number", value |-> k]

NoneToken == [kind |-> "none", value |-> 0]

SuperscriptToken == [kind |-> "superscript", value |-> 0]

Tokens(n) == { Number(k) : k \in 0..(n + 1) } \cup {NoneToken, SuperscriptToken}

TokenLists(n) == UNION { [1..m -> Tokens(n)] : m \in 0..MaxTokens }

LineKinds == {"answer", "relevant", "other"}

LineLists == UNION { [1..m -> LineKinds] : m \in 0..MaxLines }

HasLine(lines, kind) == \E i \in 1..Len(lines) : lines[i] = kind

AnswerTexts == {"", "a"}

\* The replies whose text is parsed.  The text after ANSWER: and the tokens
\* after RELEVANT: are those of the lines present.
TextReplies(n) ==
    { r \in { Reply("text", l, a, t) :
                l \in LineLists, a \in AnswerTexts, t \in TokenLists(n) } :
        /\ (~HasLine(r.lines, "answer") => r.answer = "")
        /\ (~HasLine(r.lines, "relevant") => r.relevant = <<>>) }

\* generate_content raised, or returned a response whose .text is None.
FailedReplies == {NoReply, Reply("no_text", <<>>, "", <<>>)}

\* for line in response_text.split('\n'):
\*     if line.startswith('ANSWER:'): answer_line = ...
\*     elif line.startswith('RELEVANT:'): relevant_line = ...
RECURSIVE ParseLines(_, _, _, _)
ParseLines(resp, i, answer_line, relevant_line) ==
    IF i > Len(resp.lines)
       THEN [answer_line |-> answer_line, relevant_line |-> relevant_line]
       ELSE CASE resp.lines[i] = "answer" ->
                   ParseLines(resp, i + 1, resp.answer, relevant_line)
              [] resp.lines[i] = "relevant" ->
                   ParseLines(resp, i + 1, answer_line, resp.relevant)
              [] OTHER ->
                   ParseLines(resp, i + 1, answer_line, relevant_line)

\* Faulty variant: no default for an unformatted reply.
DefaultRelevantNone == <<>>

\* relevant_line = "1"  # Default to first result
DefaultRelevant == <<Number(1)>>

\* x.strip().isdigit()
IsDigit(t) == t.kind \in {"number", "superscript"}

\* if relevant_line.lower() != "none":
\*     try: relevant_indices = [int(x.strip()) - 1 for x in ... if x.strip().isdigit()]
\*     except: relevant_indices = [0]
RelevantIndices(relevant_line) ==
    IF relevant_line = <<NoneToken>>
       THEN <<>>
       ELSE LET digits == SelectSeq(relevant_line, IsDigit)
            IN IF \E i \in 1..Len(digits) : digits[i].kind = "superscript"
                  THEN <<0>>
                  ELSE [i \in 1..Len(digits) |-> digits[i].value - 1]

\* for idx in relevant_indices:
\*     if 0 <= idx < len(results): relevant_moments.append(results[idx])
RECURSIVE PickMoments(_, _, _)
PickMoments(results_, relevant_indices, i) ==
    IF i > Len(relevant_indices)
       THEN <<>>
       ELSE LET idx_ == relevant_indices[i]
                rest == PickMoments(results_, relevant_indices, i + 1)
            IN IF 0 <= idx_ /\ idx_ < Len(results_)
                  THEN <<results_[idx_ + 1]>> \o rest
                  ELSE rest

\* results[0], the candidate returned when no moment was picked.
ClosestMatch(results_) == results_[1]

\* Faulty variant: the whole list.
FallbackMomentsAll(results_) == results_

\* results[:3]
FallbackMoments(results_) == Take(results_, FALLBACK_MOMENTS)

\* The body of the try block once response.text is a string.
ParseReply(results_, resp) ==
    LET parsed == ParseLines(resp, 1, "", <<>>)
        unformatted == parsed.answer_line = ""
        relevant_line == IF unformatted THEN DefaultRelevant
                                        ELSE parsed.relevant_line
        picked == SortBySecond(PickMoments(results_, RelevantIndices(relevant_line), 1))
        from == IF unformatted THEN "response" ELSE "line"
    IN IF picked = <<>>
          THEN Bundle(Answer(from, parsed.answer_line, TRUE, 0),
                      <<ClosestMatch(results_)>>)
          ELSE Bundle(Answer(from, parsed.answer_line, FALSE, 0), picked)

\* The context block is built before the try: in the branch of the roles other
\* than director and producer,  [e.get("type", "none") for e in emotions]
\* raises AttributeError on a list of strings.
ContextRaises(results_, role) ==
    /\ role \notin {"director", "producer"}
    /\ \E i \in 1..Len(results_) : results_[i].emotions = "strings"

\* _generate_answer(query, results, role, client), with the reply the client
\* gives if it is called.
generate_answer ==
    /\ apc = "idle"
    /\ IF candidates = <<>>
          THEN /\ bundle' = NoBundle
               /\ called' = FALSE
               /\ apc' = "answered"
       ELSE IF ContextRaises(candidates, arole)
          THEN /\ bundle' = NoBundle
               /\ called' = FALSE
               /\ apc' = "raised"
       ELSE IF response.kind # "text"
          THEN /\ bundle' = Bundle(Answer("fallback", "", FALSE, Len(candidates)),
                                   FallbackMoments(candidates))
               /\ called' = TRUE
               /\ apc' = "answered"
          ELSE /\ bundle' = ParseReply(candidates, response)
               /\ called' = TRUE
               /\ apc' = "answered"
    /\ UNCHANGED <<buildVars, loadVars, searchVars, requestVars, expandVars,
                   statusVars, candidates, arole, response>>

\* Candidates of well-formed content, every reply.
InitAnswer ==
    /\ ServiceIdle
    /\ StatusIdle(0)
    /\ RequestIdle
    /\ ExpandIdle(Str(<<>>, FALSE))
    /\ \E cands \in CandidateListsUpTo(MaxCandidates, 1..MaxScore, {"dict"}),
          role \in Roles,
          resp \in TextReplies(MaxCandidates) \cup FailedReplies :
            AnswerIdle(cands, role, resp)

NextAnswer == generate_answer

SpecAnswer == InitAnswer /\ [][NextAnswer]_vars

\* Longer candidate lists of either emotions form, and the replies that are
\* not parsed line by line: a failed call, and a text without any line.
InitFallback ==
    /\ ServiceIdle
    /\ StatusIdle(0)
    /\ RequestIdle
    /\ ExpandIdle(Str(<<>>, FALSE))
    /\ \E cands \in CandidateListsUpTo(MaxFallbackCandidates, {1}, EmotionForms),
          role \in Roles,
          resp \in FailedReplies \cup {Reply("text", <<>>, "", <<>>)} :
            AnswerIdle(cands, role, resp)

NextFallback == generate_answer

SpecFallback == InitFallback /\ [][NextFallback]_vars


NextChat ==
    \/ chat_receive
    \/ chat_top_k_set
    \/ chat_respond

SpecChat == InitChat /\ [][NextChat]_vars


\* ================================================= pipeline run and status

\* update_status: the status file is rewritten as video_id, status, message
\* and timestamp, so an "overall_progress" it held is gone.
update_status(status) == StatusData(status, FALSE, 0)

\* stage_order and stage_weights of update_overall_progress, the weights in
\* hundredths (0.1, 0.7, 0.2).
stage_order == <<"generating_frames", "analyzing_frames", "building_vector_db">>

stage_weights(s) ==
    CASE s = "generating_frames" -> 10
      [] s = "analyzing_frames" -> 70
      [] s = "building_vector_db" -> 20

\* stage_index, counted from 1: the place of the stage in stage_order, and the
\* first place for a stage that is not in it.
stage_index(stage) ==
    IF \E i \in 1..Len(stage_order) : stage_order[i] = stage
    THEN CHOOSE i \in 1..Len(stage_order) : stage_order[i] = stage
    ELSE 1

RECURSIVE WeightsBefore(_)
WeightsBefore(k) ==
    IF k <= 1 THEN 0 ELSE stage_weights(stage_order[k - 1]) + WeightsBefore(k - 1)

\* The float sum of the weights times 100 falls just below the exact value
\* at these stage progresses num/den (den up to 7), so int() gives one less.
FloatFallsShort(k, num, den) ==
    /\ k \in {2, 3}
    /\ \/ 2 * num = den
       \/ <<k, num, den>> \in {<<2, 4, 5>>, <<3, 2, 5>>}

\* overall_percentage for stage progress num/den:
\* min(100, int(overall_percentage * 100)).
overall_percentage(stage, num, den) ==
    LET k == stage_index(stage)
        exact == (WeightsBefore(k) * den + stage_weights(stage_order[k]) * num) \div den
    IN  Min(100, IF FloatFallsShort(k, num, den) THEN exact - 1 ELSE exact)

\* update_overall_progress: the file keeps its other keys and gets the stage
\* as its status and the new overall_progress.
update_overall_progress(stage, num, den) ==
    StatusData(stage, TRUE, overall_percentage(stage, num, den))

\* Step 1 of process_video_analysis begins.
pipeline_start ==
    /\ ppc = "idle"
    /\ status_file' = update_overall_progress("generating_frames", 0, 1)
    /\ highest' = Max(highest, status_file'.percentage)
    /\ ppc' = "generating_frames"
    /\ UNCHANGED <<buildVars, loadVars, searchVars, chatVars, ptotal, pseen, pdone>>

\* generate_frames returned: stage 1 is reported done and step 2 begins.
pipeline_frames_generated ==
    /\ ppc = "generating_frames"
    /\ status_file' = update_overall_progress("analyzing_frames", 0, 1)
    /\ highest' = Max(Max(highest, overall_percentage("generating_frames", 1, 1)),
                      status_file'.percentage)
    /\ ppc' = "analyzing_frames"
    /\ UNCHANGED <<buildVars, loadVars, searchVars, chatVars, ptotal, pseen, pdone>>

\* analyze_frames: one batch (of one frame). A batch that succeeded adds its
\* result and reports len(results) / total_frames; a failed one reports
\* nothing.
analyze_batch ==
    /\ ppc = "analyzing_frames"
    /\ pseen < ptotal
    /\ pseen' = pseen + 1
    /\ \E ok \in BOOLEAN :
          IF ok
          THEN /\ pdone' = pdone + 1
               /\ status_file' = update_overall_progress("analyzing_frames", pdone', ptotal)
               /\ highest' = Max(highest, status_file'.percentage)
          ELSE UNCHANGED <<pdone, status_file, highest>>
    /\ UNCHANGED <<buildVars, loadVars, searchVars, chatVars, ppc, ptotal>>

\* analyze_frames returned: stage 2 is reported done and step 3 begins, with
\* the analysed frames as the frames of build_vector_database.
pipeline_frames_analyzed ==
    /\ ppc = "analyzing_frames"
    /\ pseen = ptotal
    /\ status_file' = update_overall_progress("building_vector_db", 0, 1)
    /\ highest' = Max(Max(highest, overall_percentage("analyzing_frames", 1, 1)),
                      status_file'.percentage)
    /\ ppc' = "building_vector_db"
    /\ ptotal' = pdone
    /\ pseen' = 0
    /\ pdone' = 0
    /\ UNCHANGED <<buildVars, loadVars, searchVars, chatVars>>

\* build_vector_database: frame idx of the loop. A frame that was embedded
\* reports idx / total_frames; one that raised is skipped.
build_frame_progress ==
    /\ ppc = "building_vector_db"
    /\ pseen < ptotal
    /\ pseen' = pseen + 1
    /\ \E ok \in BOOLEAN :
          IF ok
          THEN /\ pdone' = pdone + 1
               /\ status_file' = update_overall_progress("building_vector_db", pseen', ptotal)
               /\ highest' = Max(highest, status_file'.percentage)
          ELSE UNCHANGED <<pdone, status_file, highest>>
    /\ UNCHANGED <<buildVars, loadVars, searchVars, chatVars, ppc, ptotal>>

\* build_vector_database returned: stage 3 is reported done, then the run is
\* marked completed by update_status and update_overall_progress("completed", 1.0).
pipeline_completed ==
    /\ ppc = "building_vector_db"
    /\ pseen = ptotal
    /\ pdone > 0
    /\ status_file' = update_overall_progress("completed", 1, 1)
    /\ highest' = Max(Max(highest, overall_percentage("building_vector_db", 1, 1)),
                      status_file'.percentage)
    /\ ppc' = "completed"
    /\ UNCHANGED <<buildVars, loadVars, searchVars, chatVars, ptotal, pseen, pdone>>

\* A step raised (build_vector_database does when nothing was embedded): the
\* except branch marks the run failed.
pipeline_failed ==
    /\ ppc \in {"generating_frames", "analyzing_frames", "building_vector_db"}
    /\ status_file' = update_status("failed")
    /\ ppc' = "failed"
    /\ UNCHANGED <<buildVars, loadVars, searchVars, chatVars, highest, ptotal, pseen, pdone>>

\* One pipeline run on a video of 1..MaxProgressFrames frames.
InitProgress ==
    /\ ServiceIdle
    /\ ChatIdle
    /\ \E total \in 1..MaxProgressFrames : StatusIdle(total)

NextProgress ==
    \/ pipeline_start
    \/ pipeline_frames_generated
    \/ analyze_batch
    \/ pipeline_frames_analyzed
    \/ build_frame_progress
    \/ pipeline_completed
    \/ pipeline_failed

SpecProgress == InitProgress /\ [][NextProgress]_vars


\* =========================================================== properties

InBuildCall(b) == pc[b] \notin {"idle", "scheduled"}

\* The embedding loop of b is over and the check after it was made.
PastLoop(b) ==
    \/ pc[b] \in {"write_technical", "write_content", "write_metadata", "completed"}
    \/ pc[b] = "failed" /\ err[b] \in {"ValueError", "IOError"} /\ frames[b] # <<>>

SecondsOf(meta) == {meta[i].second : i \in 1..Len(meta)}

\* The three lists of b have one length, and position i of each is the same
\* input frame, one that has both texts.
ListsAligned(b) ==
    LET t == technical_embeddings[b]
        c == content_embeddings[b]
        m == metadata[b]
    IN /\ Len(t) = Len(m)
       /\ Len(c) = Len(m)
       /\ \A i \in 1..Len(m) :
            /\ m[i].index = i - 1
            /\ \E k \in 1..Len(frames[b]) :
                 LET f == frames[b][k] IN
                   /\ HasBothTexts(f)
                   /\ f.second \notin embed_errors[b]
                   /\ m[i] = MetaRow(i - 1, f)
                   /\ t[i] = Embedding(f.embedding_text_technical)
                   /\ c[i] = Embedding(f.embedding_text_content)
       /\ \A i, j \in 1..Len(m) : i < j => m[i].second < m[j].second

\* What b's call left in the files, when no other call has written them.
FilesAreListsOf(b) ==
    /\ files["technical"] = Stored(technical_embeddings[b])
    /\ files["content"] = Stored(content_embeddings[b])
    /\ files["metadata"] = Stored(metadata[b])

\* C1: after a build call that returns, the technical index, the content index and
\* the metadata it wrote have the same number of entries and position i of each is
\* the same input frame; a frame that lacks a text, or whose embedding call
\* failed, is in none of them.
C1_RolesAligned ==
    \A b \in Builders :
        pc[b] = "completed" =>
            /\ ListsAligned(b)
            /\ \A k \in 1..Len(frames[b]) :
                 (~HasBothTexts(frames[b][k]) \/ frames[b][k].second \in embed_errors[b])
                     => /\ frames[b][k].second \notin SecondsOf(metadata[b])
                        /\ \A i \in 1..Len(technical_embeddings[b]) :
                             technical_embeddings[b][i] #
                                 Embedding(TechText(frames[b][k].second))
                        /\ \A i \in 1..Len(content_embeddings[b]) :
                             content_embeddings[b][i] #
                                 Embedding(ContText(frames[b][k].second))
            /\ (\A o \in Builders \ {b} : wrote[o] = {}) => FilesAreListsOf(b)

\* C1 witness: a call returned on a list with a frame that lacks a text and a
\* frame that was indexed.
C1_Witness ==
    \E b \in Builders :
        /\ pc[b] = "completed"
        /\ Len(frames[b]) = MaxFrames
        /\ \E k \in 1..Len(frames[b]) : ~HasBothTexts(frames[b][k])
        /\ Len(metadata[b]) >= 1
        /\ files["metadata"] = Stored(metadata[b])

\* C2: starting without artifacts, a build writes the metadata file only after it
\* has written both role index files, vector_db_exists is false until some build
\* has written the metadata, and a build that aborted has not written it.
C2_MetadataLast ==
    /\ \A b \in Builders :
         /\ "metadata" \in wrote[b] => {"technical", "content"} \subseteq wrote[b]
         /\ pc[b] = "failed" => "metadata" \notin wrote[b]
    /\ vector_db_exists => \E b \in Builders : "metadata" \in wrote[b]
    /\ files["metadata"].exists => files["technical"].exists /\ files["content"].exists

\* C2 witness: a build aborted after writing both index files and the video is
\* not ready.
C2_Witness ==
    \E b \in Builders :
        /\ pc[b] = "failed"
        /\ wrote[b] = {"technical", "content"}
        /\ ~vector_db_exists

\* C3: whenever vector_db_exists holds, all three role indices and the metadata
\* exist, so no search that passed the readiness check gets a not-found error.
C3_ReadyMeansAllRoles ==
    vector_db_exists =>
        /\ \A t \in IndexTypes : files[t].exists
        /\ files["metadata"].exists
        /\ \A r \in Readers : rpc[r] # "not_found"

\* C4: a cache entry never pairs an index with a metadata table of another
\* length.
C4_EntryPaired ==
    \A t \in IndexTypes :
        loaded_indices[t].cached =>
            Len(loaded_indices[t].index) = Len(loaded_indices[t].metadata)

\* A build has written some of its three files and not yet all of them.
MidWrite(b) == pc[b] \in {"write_content", "write_metadata"}

\* C5: the writes of two builds of the video are never interleaved: no two builds
\* are part-way through their writes at once.
C5_OneBuildAtATime ==
    \A b, c \in Builders : b # c => ~(MidWrite(b) /\ MidWrite(c))

\* C6: the files of a (video, role) are read at most once.
C6_SingleFlight == \A t \in IndexTypes : loads[t] <= 1

\* C7 (as claimed): when an embedding call fails for a frame, the build aborts
\* and persists nothing.
C7_FailureAborts ==
    \A b \in Builders :
        embed_errors[b] # {} => wrote[b] = {} /\ pc[b] # "completed"

\* C7 (amended): a frame whose embedding call fails is left out of both indices
\* and of the metadata and the build goes on with the other frames; it raises
\* ValueError, having written nothing, exactly when no frame got both embeddings.
C7_FailureSkipsFrame ==
    \A b \in Builders :
        /\ \A s \in embed_errors[b] :
             /\ s \notin SecondsOf(metadata[b])
             /\ \A i \in 1..Len(technical_embeddings[b]) :
                  technical_embeddings[b][i] # Embedding(TechText(s))
             /\ \A i \in 1..Len(content_embeddings[b]) :
                  content_embeddings[b][i] # Embedding(ContText(s))
        /\ (pc[b] = "embedding" /\ embed_errors[b] # {}) => err[b] = ""
        /\ PastLoop(b) =>
             ((pc[b] = "failed" /\ err[b] = "ValueError") <=> metadata[b] = <<>>)
        /\ (pc[b] = "failed" /\ err[b] = "ValueError") => wrote[b] = {}

\* C7 witness: a build returned although an embedding call failed for one of its
\* frames, and the other frame is in the files.
C7_Witness ==
    \E b \in Builders :
        /\ pc[b] = "completed"
        /\ embed_errors[b] # {}
        /\ Len(metadata[b]) = 1
        /\ files["metadata"] = Stored(metadata[b])

NoFrameSurvives(b) == \A k \in 1..Len(frames[b]) : ~HasBothTexts(frames[b][k])

\* C8: a build whose frame list is empty, or of whose frames none survives, raises
\* ValueError and has written no file.
C8_EmptyBuildRaises ==
    \A b \in Builders :
        /\ (InBuildCall(b) /\ pc[b] # "build" /\ frames[b] = <<>>)
              => pc[b] = "failed" /\ err[b] = "ValueError" /\ wrote[b] = {}
        /\ (PastLoop(b) /\ (NoFrameSurvives(b) \/ metadata[b] = <<>>))
              => pc[b] = "failed" /\ err[b] = "ValueError" /\ wrote[b] = {}

\* C8 witness: a build of a non-empty list none of whose frames has both texts
\* raised ValueError, and the artifacts of an earlier build are still in place.
C8_Witness ==
    \E b \in Builders :
        /\ pc[b] = "failed"
        /\ err[b] = "ValueError"
        /\ Len(frames[b]) = MaxFrames
        /\ NoFrameSurvives(b)
        /\ wrote[b] = {}
        /\ vector_db_exists

\* C9: during and after the merge, the merge map holds exactly the seconds some
\* variant returned, one candidate each, and its candidate for a second carries
\* the highest score any variant returned for that second.
C9_MergeKeepsMax ==
    spc \in {"expanding", "merged"} =>
        /\ \A i, j \in 1..Len(all_candidates) :
             i # j => all_candidates[i].second # all_candidates[j].second
        /\ { all_candidates[i].second : i \in 1..Len(all_candidates) }
               = DOMAIN best_returned
        /\ \A i \in 1..Len(all_candidates) :
             /\ all_candidates[i].score = best_returned[all_candidates[i].second]
             /\ all_candidates[i] = Result(smeta, all_candidates[i].index + 1,
                                           all_candidates[i].score)

\* C9 witness: the last variant returned a second with a lower score than an
\* earlier variant had, and the merge map still carries the higher one.
C9_Witness ==
    /\ spc = "merged"
    /\ \E i \in 1..Len(results) : \E j \in 1..Len(all_candidates) :
         /\ results[i].second = all_candidates[j].second
         /\ results[i].score < all_candidates[j].score

\* top_k of the search call that produced `results`.
ResultsTopK == IF spc = "searched" THEN stopk ELSE VARIANT_TOP_K

\* C10: a list returned by search has at most top_k results, and any two of them
\* are more than 3 seconds apart.
C10_WindowedDedup ==
    spc \in {"searched", "expanding", "merged"} =>
        /\ Len(results) <= ResultsTopK
        /\ \A i, j \in 1..Len(results) :
             i # j => Abs(results[i].second - results[j].second) > TIME_THRESHOLD

\* C10 witness: a search on a full table returned fewer results than top_k allows
\* because a frame was within the window of an accepted one.
C10_Witness ==
    /\ spc = "searched"
    /\ Len(smeta) = MaxIndex
    /\ stopk = MaxTopK
    /\ Len(results) = 1

\* Position in `hits` of the hit a result was made from.
HitOf(r) == CHOOSE i \in 1..Len(hits.indices) : hits.indices[i] = r.index + 1

\* The hits the direct search accepted.
AcceptedHits == { HitOf(results[k]) : k \in 1..Len(results) }

HitSecond(i) == smeta[hits.indices[i]]

\* C11: the direct search is greedy in descending score order: the hits come
\* by score descending, the first (highest-scoring) hit is always returned, an
\* accepted hit is more than 3 seconds from every hit accepted before it, and a
\* hit that was not accepted either lies within 3 seconds of a hit accepted
\* before it (one of higher or equal score) or comes after the top_k-th
\* accepted hit.  On frames at seconds 0, 1 and 5 (a close pair and a far frame,
\* as 10, 11 and 40) with top_k = 2, exactly one of the close pair is returned.
C11_GreedyByScore ==
    spc = "searched" =>
        /\ \A i, j \in 1..Len(hits.scores) : i < j => hits.scores[i] >= hits.scores[j]
        /\ \A k \in 1..Len(results) :
             /\ results[k].index + 1 \in { hits.indices[i] : i \in 1..Len(hits.indices) }
             /\ results[k] = Result(smeta, results[k].index + 1, hits.scores[HitOf(results[k])])
        /\ 1 \in AcceptedHits
        /\ \A i \in AcceptedHits : \A j \in AcceptedHits :
             j < i => Abs(HitSecond(i) - HitSecond(j)) > TIME_THRESHOLD
        /\ \A i \in (1..Len(hits.indices)) \ AcceptedHits :
             \/ \E j \in AcceptedHits :
                  /\ j < i
                  /\ hits.scores[j] >= hits.scores[i]
                  /\ Abs(HitSecond(i) - HitSecond(j)) <= TIME_THRESHOLD
             \/ Cardinality({ j \in AcceptedHits : j < i }) >= stopk
        /\ (smeta = <<0, 1, 5>> /\ stopk = 2) =>
             Cardinality({ k \in 1..Len(results) : results[k].second \in {0, 1} }) = 1

\* C11 witness: on frames at seconds 0, 1 and 5 with top_k = 2 the far frame scored
\* highest, then the later frame of the close pair, which was returned, and the
\* earlier one was not.
C11_Witness ==
    /\ spc = "searched"
    /\ smeta = <<0, 1, 5>>
    /\ stopk = 2
    /\ hits.indices = <<3, 2, 1>>
    /\ { results[k].second : k \in 1..Len(results) } = {1, 5}

CandidateSet == { all_candidates[i] : i \in 1..Len(all_candidates) }

RawSet == { raw_results[i] : i \in 1..Len(raw_results) }

\* C12: what search_with_answer hands to _generate_answer is top_k of the merged
\* candidates, or all of them when there are fewer, none twice, every one of them
\* scoring at least as high as every candidate left out, in ascending order of
\* second.
C12_TopKBySecond ==
    spc = "ranked" =>
        /\ Len(raw_results) = Min(stopk, Len(all_candidates))
        /\ Cardinality(RawSet) = Len(raw_results)
        /\ RawSet \subseteq CandidateSet
        /\ \A r \in RawSet : \A c \in CandidateSet \ RawSet : r.score >= c.score
        /\ \A i, j \in 1..Len(raw_results) :
             i < j => raw_results[i].second < raw_results[j].second

\* C12 witness: of two merged candidates only one is handed on (top_k = 1), the
\* higher-scoring one, although it is the later of the two.
C12_Witness ==
    /\ spc = "ranked"
    /\ stopk = 1
    /\ Len(all_candidates) = 2
    /\ \E c \in CandidateSet \ RawSet :
         /\ c.second < raw_results[1].second
         /\ c.score < raw_results[1].score

\* C13: in search_with_answer no windowed deduplication is applied: once the
\* variants are merged, two frames at most 3 seconds apart that are both among a
\* variant's nearest neighbours (every frame is, on an index of at most 10
\* vectors) are both in the merge map.
C13_NoWindowInMerge ==
    spc \in {"merged", "ranked"} =>
        \A i, j \in 1..Len(smeta) :
            (i # j /\ Abs(smeta[i] - smeta[j]) <= TIME_THRESHOLD)
                => {smeta[i], smeta[j]} \subseteq
                       { all_candidates[k].second : k \in 1..Len(all_candidates) }

\* C14 (as claimed): a producer request gets 15 only when its body has no top_k;
\* a top_k given in the body is used unchanged for every role; a request of
\* another role without top_k gets 5.
C14_GivenTopKUnchanged ==
    cpc = "searching" =>
        /\ request.top_k_given => chat_top_k = request.top_k
        /\ ~request.top_k_given =>
             chat_top_k = IF request.role = "producer" THEN 15 ELSE 5

\* The table terms in the order _expand_query goes through them.
TermOrder ==
    [i \in 1..Len(emotion_map) |-> emotion_map[i].base]
        \o [i \in 1..Len(location_map) |-> location_map[i].base]
        \o [i \in 1..Len(action_map) |-> action_map[i].base]

\* Variants a contained term gives rise to: two for an emotion, one otherwise.
VariantsOf(term) == IF term \in BasesOf(emotion_map) THEN 2 ELSE 1

\* Variants of the terms of `query` among the first n terms of TermOrder.
RECURSIVE VariantsUpTo(_)
VariantsUpTo(n) ==
    IF n = 0 THEN 0
    ELSE VariantsUpTo(n - 1)
           + (IF Contains(Lower(query), TermOrder[n]) THEN VariantsOf(TermOrder[n]) ELSE 0)

\* Some returned variant has `term` replaced.
HasVariantFor(term) ==
    \E i \in 2..Len(expansions) : ~Contains(expansions[i], term)

ExpansionsWellFormed ==
    /\ Len(expansions) <= 5
    /\ \A i, j \in 1..Len(expansions) : i # j => expansions[i] # expansions[j]
    /\ Len(expansions) >= 1
    /\ expansions[1] = query

\* C15 (as claimed): at most 5 variants, pairwise distinct, the original first,
\* and for every kind of table term (emotion, location, action) the query
\* contains, a variant in which a contained term of that kind is replaced.
C15_EveryKindExpanded ==
    epc = "expanded" =>
        /\ ExpansionsWellFormed
        /\ \A map \in {emotion_map, location_map, action_map} :
             (\E base \in BasesOf(map) : Contains(Lower(query), base))
                => \E base \in BasesOf(map) :
                       Contains(Lower(query), base) /\ HasVariantFor(base)

\* C15 (amended): at most 5 variants, pairwise distinct, the original first; the
\* variants follow in table order (emotions, each with two synonyms, then
\* locations and actions, each with one) and the list is cut at 5, so a contained
\* term has a variant exactly when the contained terms before it in table order
\* produce fewer than 4 variants; the first contained term always has one, and
\* "happy scene" yields "joyful scene".
C15_ExpansionsCutAtFive ==
    epc = "expanded" =>
        /\ ExpansionsWellFormed
        /\ \A n \in 1..Len(TermOrder) :
             Contains(Lower(query), TermOrder[n]) =>
                 (HasVariantFor(TermOrder[n]) <=> VariantsUpTo(n - 1) < 4)
        /\ (\E n \in 1..Len(TermOrder) : Contains(Lower(query), TermOrder[n]))
              => Len(expansions) >= 2
        /\ query.words = <<"happy", "scene">> =>
              \E i \in 2..Len(expansions) : expansions[i] = Str(<<"joyful", "scene">>, FALSE)

\* C15 witness: a query with three emotion terms was expanded to five entries and
\* none of them replaces the third term.
C15_Witness ==
    /\ epc = "expanded"
    /\ query = Str(<<"happy", "sad", "tense">>, FALSE)
    /\ Len(expansions) = 5
    /\ ~HasVariantFor("tense")

\* ------------------------------------------- properties of _generate_answer
CandidateSetOf(seq) == { seq[i] : i \in 1..Len(seq) }

AscendingBySecond(seq) ==
    \A i \in 1..Len(seq) : \A j \in 1..Len(seq) :
        i < j => seq[i].second <= seq[j].second

\* C16: when no moment is picked from the reply (the answer carries the
\* weak-match disclaimer) although candidates were given, relevant_moments is
\* the single candidate with the highest score and found_count is 1.
C16_ClosestIsTopScoring ==
    (apc = "answered" /\ bundle.answer.disclaimer)
        => /\ Len(bundle.relevant_moments) = 1
           /\ bundle.found_count = 1
           /\ bundle.relevant_moments[1] \in CandidateSetOf(candidates)
           /\ \A c \in CandidateSetOf(candidates) :
                 bundle.relevant_moments[1].score >= c.score

\* The reply is a text with no ANSWER: line and no RELEVANT: line.
NoPrefixReply ==
    /\ response.kind = "text"
    /\ ~HasLine(response.lines, "answer")
    /\ ~HasLine(response.lines, "relevant")

\* C17: a reply without an ANSWER: line and without a RELEVANT: line is
\* returned whole as the answer, with no disclaimer, and the first candidate
\* of the context block is the only relevant moment (found_count 1).
C17_UnformattedReplyDefaults ==
    (apc = "answered" /\ called /\ NoPrefixReply)
        => /\ bundle.answer.from = "response"
           /\ ~bundle.answer.disclaimer
           /\ bundle.relevant_moments = <<candidates[1]>>
           /\ bundle.found_count = 1

C17_Witness ==
    /\ apc = "answered"
    /\ called
    /\ NoPrefixReply
    /\ response.lines = <<"other", "other">>
    /\ Len(candidates) = 2
    /\ bundle.relevant_moments = <<candidates[1]>>

\* The 1-based context numbers between 1 and the candidate count that appear
\* as number tokens in the RELEVANT value of the reply.
NumbersInRange ==
    { response.relevant[i].value : i \in
        { j \in 1..Len(response.relevant) :
            /\ response.relevant[j].kind = "number"
            /\ response.relevant[j].value \in 1..Len(candidates) } }

\* C18: when the RELEVANT value of the reply has a number token in range,
\* relevant_moments holds exactly the candidates those tokens number, ordered
\* by second ascending; every other token is discarded.
C18_RelevantNumbersPicked ==
    (apc = "answered" /\ called /\ response.kind = "text" /\ NumbersInRange # {})
        => /\ CandidateSetOf(bundle.relevant_moments)
                = { candidates[k] : k \in NumbersInRange }
           /\ AscendingBySecond(bundle.relevant_moments)

\* generate_content was called and raised, or gave a response without text.
CallFailed == called /\ response.kind # "text"

\* C19: when the answer-generation call fails on a non-empty candidate list,
\* the function returns the fallback bundle: the generic answer stating the
\* candidate count, the first 3 candidates in list order (all of them when
\* there are fewer), and found_count = min(3, number of candidates).
C19_FallbackBundle ==
    (apc # "idle" /\ CallFailed /\ candidates # <<>>)
        => /\ apc = "answered"
           /\ bundle.answer = Answer("fallback", "", FALSE, Len(candidates))
           /\ bundle.relevant_moments
                = SubSeq(candidates, 1, Min(3, Len(candidates)))
           /\ bundle.found_count = Min(3, Len(candidates))

C19_Witness ==
    /\ apc = "answered"
    /\ CallFailed
    /\ response.kind = "error"
    /\ Len(candidates) = 4
    /\ Len(bundle.relevant_moments) = 3
    /\ bundle.answer.count = 4

\* C20: for a non-empty candidate list, whatever the answer-generation call
\* does, the function returns a bundle without raising, with found_count =
\* len(relevant_moments) and relevant_moments non-empty.
C20_AlwaysABundle ==
    (apc # "idle" /\ candidates # <<>>)
        => /\ apc = "answered"
           /\ bundle.found_count = Len(bundle.relevant_moments)
           /\ bundle.relevant_moments # <<>>

\* C21: with an empty candidate list the function returns the canned
\* 'no relevant moments' answer, relevant_moments empty and found_count 0,
\* and generate_content is not called.
C21_EmptyCandidatesCanned ==
    (apc # "idle" /\ candidates = <<>>)
        => /\ apc = "answered"
           /\ bundle.answer.from = "canned"
           /\ ~bundle.answer.disclaimer
           /\ bundle.relevant_moments = <<>>
           /\ bundle.found_count = 0
           /\ ~called

C21_Witness ==
    /\ apc = "answered"
    /\ candidates = <<>>
    /\ response.kind = "text"
    /\ response.lines = <<"answer", "relevant">>
    /\ bundle.answer.from = "canned"

\* ------------------------------------ properties of the variant failures
\* C22: a variant whose embed or search call fails is skipped and the other
\* variants are still searched; search_with_answer fails only when every
\* variant was tried and none of them succeeded.
C22_FailsOnlyIfAllVariantsFail ==
    spc = "failed" => (variants_left = 0 /\ DOMAIN best_returned = {})

\* ------------------------------------------- properties of the index cache
\* An entry is cached only for files that exist and were read.
CachedOnlyAfterLoad ==
    \A t \in IndexTypes :
        loaded_indices[t].cached => (IndexFilesExist(t) /\ loads[t] >= 1)

\* A load that ends in not-found found a file missing and leaves the cache as
\* it was.
NotFoundLeavesCache ==
    \A r \in Readers :
        (rpc[r] # "not_found" /\ rpc'[r] = "not_found")
            => (~IndexFilesExist(rtype'[r]) /\ loaded_indices' = loaded_indices)

\* Once an entry is present its files are not read again and it is neither
\* replaced nor removed.
EntryKept ==
    \A t \in IndexTypes :
        loaded_indices[t].cached
            => (loaded_indices'[t] = loaded_indices[t] /\ loads'[t] = loads[t])

\* C23: the cache holds an entry only after a load that found both files; a
\* load on a role that was never fully built raises not-found and leaves the
\* cache unchanged; a present entry is returned to every later access without
\* the files being read again, and is never replaced or removed.
C23_CacheEntryStable ==
    /\ []CachedOnlyAfterLoad
    /\ [][NotFoundLeavesCache]_vars
    /\ [][EntryKept]_vars

\* ------------------------------------------------ properties of the roles
\* C24: a request whose role is none of actor, director, producer is rejected
\* at every entry point: /chat does not go on to search, and search and
\* search_with_answer do not search any index for it.
C24_UnknownRoleRejected ==
    /\ request.role \notin Roles => cpc \in {"idle", "received", "rejected"}
    /\ srole \notin Roles => spc \notin {"searched", "expanding", "merged", "ranked"}

\* ------------------------------------------------ properties of a rebuild
\* The call of b returns: its last write is done.
BuildSucceeds(b) == pc[b] # "completed" /\ pc'[b] = "completed"

\* When a call returns, the three files hold the lists that call made of its
\* own frame list, and nothing of what they held before.
FullReconstruction ==
    \A b \in Builders :
        BuildSucceeds(b) => (ListsAligned(b) /\ FilesAreListsOf(b))'

\* Two calls on the same frame list, with the same outcomes of the embedding
\* calls, make the same lists.
SameInputSameLists ==
    \A b, c \in Builders :
        (/\ pc[b] = "completed"
         /\ pc[c] = "completed"
         /\ frames[b] = frames[c]
         /\ embed_errors[b] = embed_errors[c])
            => /\ metadata[b] = metadata[c]
               /\ technical_embeddings[b] = technical_embeddings[c]
               /\ content_embeddings[b] = content_embeddings[c]

\* C25: a rebuild is a full reconstruction: after a successful call both role
\* indices and the metadata hold only entries made from that call's frame
\* list, and a rebuild from an identical frame list gives the same vector
\* count and the same metadata.
C25_RebuildReconstructs ==
    /\ [][FullReconstruction]_vars
    /\ []SameInputSameLists

\* ------------------------------------------------- properties of the scan
\* C26: the single-query search stops only at top_k accepted results or when
\* every indexed frame was considered: when it returns fewer than top_k
\* results, every frame of the index is within 3 seconds of a returned one.
C26_FewerMeansExhausted ==
    (spc = "searched" /\ Len(results) < stopk)
        => \A i \in 1..Len(smeta) :
              \E j \in 1..Len(results) : Abs(smeta[i] - results[j].second) <= 3

\* --------------------------------------- properties of the RELEVANT line
\* The moments the RELEVANT value of the reply names: the candidates numbered
\* by its number tokens in range, or none for the literal none.
NamedByRelevantLine ==
    IF response.relevant = <<NoneToken>>
       THEN {}
       ELSE { candidates[k] : k \in NumbersInRange }

\* C27: the default RELEVANT "1" is applied exactly when neither prefix is
\* found: whenever the reply has a line starting with RELEVANT:, the relevant
\* set comes from that line's value, also when the ANSWER: line is absent or
\* has no text.
C27_RelevantLineRespected ==
    (/\ apc = "answered"
     /\ called
     /\ response.kind = "text"
     /\ HasLine(response.lines, "relevant")
     /\ \A i \in 1..Len(response.relevant) : response.relevant[i].kind # "superscript")
        => IF NamedByRelevantLine = {}
              THEN bundle.answer.disclaimer
              ELSE /\ ~bundle.answer.disclaimer
                   /\ CandidateSetOf(bundle.relevant_moments) = NamedByRelevantLine

\* C28: relevant_moments holds each candidate at most once, whatever the
\* RELEVANT value, so found_count is at most the number of candidates.
C28_NoRepeatedMoment ==
    (apc = "answered" /\ candidates # <<>>)
        => /\ \A i, j \in 1..Len(bundle.relevant_moments) :
                 i # j => bundle.relevant_moments[i] # bundle.relevant_moments[j]
           /\ CandidateSetOf(bundle.relevant_moments) \subseteq CandidateSetOf(candidates)
           /\ bundle.found_count <= Len(candidates)

\* C29: along one pipeline run the overall percentage stored in the status
\* file never decreases, and a run that finished with status completed has
\* stored the overall percentage 100.
C29_ProgressNeverDecreases ==
    /\ status_file.has_overall => status_file.percentage >= highest
    /\ ppc = "completed" =>
          /\ status_file.status = "completed"
          /\ status_file.has_overall
          /\ status_file.percentage = 100

\* C30: after a pipeline run has ended failed, at whatever stage, and the
\* video is not queryable, an analyze-video request starts a new run (it
\* does not find the video already analyzed); and analyze-video answers
\* "completed" (is_analyzed holds) only for a video whose vector database
\* exists.
C30_FailedRunCanRestart ==
    /\ \A b \in Builders :
          (pc[b] = "failed" /\ ~vector_db_exists) => ~is_analyzed
    /\ is_analyzed => vector_db_exists

====
